---- MODULE Spec2Model ----
(***************************************************************************)
(* Bithumb price monitor: the price store (utils/db_util.py) and the       *)
(* per-symbol poll cycle (main.py).  One run of main() bootstraps every    *)
(* monitored symbol's table and then polls every symbol once.              *)
(*                                                                         *)
(* Dates are day numbers (the 'YYYY-MM-DD' strings of the code, which      *)
(* order the same way).  A candle's candle_date_time_kst is kept as its    *)
(* date part, which is all the store reads of it ([:10]).                  *)
(***************************************************************************)
EXTENDS Integers, Sequences, FiniteSets, TLC

(* ------------------------------ bounds --------------------------------- *)
MaxPrice == 2
MaxOpen == 2
MaxDay == 2
MaxSeed == 1
MaxCycles == 2

Symbols == {"BTC", "ETH"}
Prices == 0..MaxPrice
Opens == 1..MaxOpen

None == [none |-> TRUE]

(* A daily candle as get_latest_daily_candle / get_daily_candles build it. *)
(* The exchange is free in every price field; the traded volume of the     *)
(* inputs varies with the opening price (the store copies both verbatim).  *)
Candles(dates) ==
    {c \in [opening_price : Opens, trade_price : Prices, high_price : Prices,
            low_price : Prices, candle_acc_trade_volume : Opens,
            candle_date_time_kst : dates] :
        c.candle_acc_trade_volume = c.opening_price}

(* The seed history get_daily_candles returns: newest first, one candle    *)
(* per day back from the exchange's date; a quiet market's candles (all    *)
(* four prices equal).                                                     *)
SeedCandle(p, d) ==
    [opening_price |-> 1, trade_price |-> p, high_price |-> p, low_price |-> p,
     candle_acc_trade_volume |-> 1, candle_date_time_kst |-> d]

SeedHistories(d) ==
    UNION {[1..n -> Prices] : n \in 1..MaxSeed}

HistoryOf(ps, d) == [k \in 1..Len(ps) |-> SeedCandle(ps[k], d - (k - 1))]

(* --------------------------- the price store --------------------------- *)
Max(S) == CHOOSE x \in S : \A y \in S : y <= x
Min(S) == CHOOSE x \in S : \A y \in S : x <= y

(* db_util.table_exists: sqlite_master holds the symbol's table. *)
table_exists(db, symbol) == symbol \in DOMAIN db

(* db_util.create_table: CREATE TABLE IF NOT EXISTS, then commit. *)
create_table(db, symbol) ==
    IF symbol \in DOMAIN db THEN db
    ELSE [s \in DOMAIN db \cup {symbol} |-> IF s = symbol THEN {} ELSE db[s]]

(* Variant: the table without its UNIQUE(reg_date) constraint. *)
unique_reg_date_dropped(rows, date) == TRUE

(* UNIQUE(reg_date) of the table: may a row dated date be added to rows? *)
unique_reg_date(rows, date) == \A r \in rows : r.reg_date # date

(* idx INTEGER PRIMARY KEY AUTOINCREMENT: rows are never deleted. *)
next_idx(rows) == Cardinality(rows) + 1

(* The row an INSERT of db_util builds from a candle. *)
row_of(rows, c) ==
    [idx |-> next_idx(rows),
     open_price |-> c.opening_price,
     close_price |-> c.trade_price,
     high_price |-> c.high_price,
     low_price |-> c.low_price,
     volume |-> c.candle_acc_trade_volume,
     reg_date |-> c.candle_date_time_kst]

(* db_util.insert_candle: the INSERT is keyed by the candle's own date;    *)
(* it raises sqlite3.IntegrityError when the UNIQUE constraint fails.      *)
insert_raises(rows, c) == ~unique_reg_date(rows, c.candle_date_time_kst)

(* Variant: an insert that writes nothing. *)
insert_candle_lost(rows, c) == rows

insert_candle(rows, c) == rows \cup {row_of(rows, c)}

(* db_util.bulk_insert_candles: the INSERTs of one transaction, in order;  *)
(* IntegrityError at the first candle whose date is already there.         *)
RECURSIVE bulk_insert_raises(_, _)
bulk_insert_raises(rows, candles) ==
    IF candles = <<>> THEN FALSE
    ELSE insert_raises(rows, Head(candles))
         \/ bulk_insert_raises(insert_candle(rows, Head(candles)), Tail(candles))

RECURSIVE bulk_insert_candles(_, _)
bulk_insert_candles(rows, candles) ==
    IF candles = <<>> THEN rows
    ELSE bulk_insert_candles(insert_candle(rows, Head(candles)), Tail(candles))

(* db_util.get_record_by_date: fetchone() of SELECT * WHERE reg_date = ?.  *)
get_record_by_date(rows, date) ==
    LET found == {r \in rows : r.reg_date = date}
    IN  IF found = {} THEN None
        ELSE CHOOSE r \in found : \A q \in found : r.idx <= q.idx

(* Variant: an UPDATE that also sets open_price. *)
update_candle_sets_open(rows, c, date) ==
    {IF r.reg_date = date
        THEN [r EXCEPT !.open_price = c.opening_price,
                       !.close_price = c.trade_price,
                       !.high_price = c.high_price,
                       !.low_price = c.low_price,
                       !.volume = c.candle_acc_trade_volume]
        ELSE r : r \in rows}

(* Variant: an UPDATE that keeps the running maximum as high_price. *)
update_candle_running_high(rows, c, date) ==
    {IF r.reg_date = date
        THEN [r EXCEPT !.close_price = c.trade_price,
                       !.high_price = IF c.high_price > @ THEN c.high_price ELSE @,
                       !.low_price = c.low_price,
                       !.volume = c.candle_acc_trade_volume]
        ELSE r : r \in rows}

(* Variant: an UPDATE that leaves high_price and low_price as they were. *)
update_candle_close_only(rows, c, date) ==
    {IF r.reg_date = date
        THEN [r EXCEPT !.close_price = c.trade_price,
                       !.volume = c.candle_acc_trade_volume]
        ELSE r : r \in rows}

(* db_util.update_candle: UPDATE ... SET close, high, low, volume          *)
(* WHERE reg_date = date.                                                  *)
update_candle(rows, c, date) ==
    {IF r.reg_date = date
        THEN [r EXCEPT !.close_price = c.trade_price,
                       !.high_price = c.high_price,
                       !.low_price = c.low_price,
                       !.volume = c.candle_acc_trade_volume]
        ELSE r : r \in rows}

(* The rows of WHERE DATE(reg_date) >= DATE('now', '-N days'). *)
in_period(rows, days, now) == {r \in rows : r.reg_date >= now - days}

(* db_util.get_period_high: MAX(high_price) of the period, <<m>>; None     *)
(* (<<>>) when the query's result is NULL or falsy.                        *)
get_period_high(rows, days, now) ==
    LET highs == {r.high_price : r \in in_period(rows, days, now)}
    IN  IF highs = {} \/ Max(highs) = 0 THEN <<>> ELSE <<Max(highs)>>

(* db_util.get_period_low: MIN(low_price) of the period, likewise. *)
get_period_low(rows, days, now) ==
    LET lows == {r.low_price : r \in in_period(rows, days, now)}
    IN  IF lows = {} \/ Min(lows) = 0 THEN <<>> ELSE <<Min(lows)>>

(* Variant: the rows in the order of their insertion (idx). *)
RECURSIVE order_by_idx(_)
order_by_idx(rows) ==
    IF rows = {} THEN <<>>
    ELSE LET first == CHOOSE r \in rows : \A q \in rows : r.idx <= q.idx
         IN  <<first>> \o order_by_idx(rows \ {first})

(* ORDER BY reg_date ASC: the rows as a sequence, oldest first (rows of    *)
(* one date in the order of their idx).                                    *)
RECURSIVE order_by_reg_date(_)
order_by_reg_date(rows) ==
    IF rows = {} THEN <<>>
    ELSE LET first == CHOOSE r \in rows : \A q \in rows :
                          \/ r.reg_date < q.reg_date
                          \/ r.reg_date = q.reg_date /\ r.idx <= q.idx
         IN  <<first>> \o order_by_reg_date(rows \ {first})

(* db_util.get_period_candles: the rows of the period, oldest first, each  *)
(* mapped back to a candle (close_price as trade_price).                   *)
get_period_candles(rows, days, now) ==
    LET results == order_by_reg_date(in_period(rows, days, now))
    IN  [k \in 1..Len(results) |->
            [opening_price |-> results[k].open_price,
             trade_price |-> results[k].close_price,
             high_price |-> results[k].high_price,
             low_price |-> results[k].low_price,
             candle_acc_trade_volume |-> results[k].volume,
             candle_date_time_kst |-> results[k].reg_date]]

(* Sequence helpers. *)
Reverse(seq) == [k \in 1..Len(seq) |-> seq[Len(seq) + 1 - k]]

VARIABLES
    tables,             \* the database file: existing table -> its set of rows
    today,              \* datetime.now() as a date
    exchange_day,       \* the date of the exchange's latest daily candle
    monitored_symbols,  \* MONITORED_SYMBOLS, in order
    pc,                 \* position of main()
    i,                  \* index of the symbol loop in progress
    candle,             \* process_symbol: the fetched candle, or None
    existing_record,    \* process_symbol: today's row as read, or None
    is_new_high,        \* process_symbol: flag
    is_new_low,         \* process_symbol: flag
    sent,               \* alerts dispatched in the cycle in progress
    error,              \* the exception that ended the last run, or NoError
    cycles,             \* poll cycles started so far
    last_cycle,         \* symbol -> its last completed cycle, or NoCycle
    touched,            \* collaborators the run has constructed or called
    seed_fetches        \* symbol -> the seed fetches made for it, all runs

main_vars == <<tables, today, exchange_day, monitored_symbols, pc, i, candle,
               existing_record, is_new_high, is_new_low, sent, error, cycles,
               last_cycle, touched, seed_fetches>>

(* get_daily_candles(symbol, count), specified on its own (FetchSpec). *)
VARIABLES
    count,              \* the number of candles asked for
    listed,             \* the days of history the exchange has of the symbol
    all_candles,        \* the candles accumulated, newest first
    remaining_count,    \* candles still to fetch
    to_timestamp,       \* <<>> (None) or <<date>>: the 'to' of the next request
    fetch_pc,           \* "idle", "request" (at the loop test) or "done"
    fetched,            \* the value returned: None or [list |-> candles]
    requested           \* the params of the requests made, in order

fetch_vars == <<count, listed, all_candles, remaining_count, to_timestamp,
                fetch_pc, fetched, requested>>

FetchIdle ==
    /\ count = 0
    /\ listed = 0
    /\ all_candles = <<>>
    /\ remaining_count = 0
    /\ to_timestamp = <<>>
    /\ fetch_pc = "idle"
    /\ fetched = None
    /\ requested = <<>>

(* bulk_insert_candles(symbol, candles) on a created table, specified on   *)
(* its own (SeedSpec).                                                     *)
VARIABLES
    batch,              \* the candles passed to bulk_insert_candles
    uncommitted,        \* rows of the connection's open transaction
    seed_pc             \* "idle", "call", "returned", "raised" or "exited"

seed_vars == <<batch, uncommitted, seed_pc>>

SeedIdle ==
    /\ batch = <<>>
    /\ uncommitted = {}
    /\ seed_pc = "idle"

(* format_percent_diff(current_price, period_price), specified on its own  *)
(* (FormatSpec).                                                           *)
VARIABLES
    arg_current_price,  \* the argument current_price
    arg_period_price,   \* the argument period_price: <<>> (None) or <<price>>
    percent_diff,       \* the string returned ("" before the call)
    format_pc           \* "idle", "call" or "returned"

format_vars == <<arg_current_price, arg_period_price, percent_diff, format_pc>>

FormatIdle ==
    /\ arg_current_price = 0
    /\ arg_period_price = <<>>
    /\ percent_diff = ""
    /\ format_pc = "idle"

(* The variables of the single calls specified on their own further down. *)
(* send_alert(symbol, alert_type, current_price, db, telegram), its try    *)
(* block step by step over a sequence of alerts (AlertSpec).               *)
VARIABLES
    alert_pc,           \* "idle", "ready" or the call send_alert is at
    alert_symbol,       \* the argument symbol ("" before the first alert)
    alert_message,      \* the message composed, or None
    chart_files,        \* the chart files of the data directory
    chart_path,         \* <<>> (None) or <<file>>: create_chart's result
    dispatched,         \* what the alert has sent through telegram
    alert_outcome,      \* "none", "sent" or "failed": how the last alert ended
    alerts,             \* the alerts started so far
    clock               \* the second datetime.now() is in

alert_vars == <<alert_pc, alert_symbol, alert_message, chart_files, chart_path,
                dispatched, alert_outcome, alerts, clock>>

AlertIdle ==
    /\ alert_pc = "idle"
    /\ alert_symbol = ""
    /\ alert_message = None
    /\ chart_files = {}
    /\ chart_path = <<>>
    /\ dispatched = <<>>
    /\ alert_outcome = "none"
    /\ alerts = 0
    /\ clock = 0

call_vars == <<fetch_vars, seed_vars, format_vars, alert_vars>>

CallsIdle == FetchIdle /\ SeedIdle /\ FormatIdle /\ AlertIdle

vars == <<main_vars, call_vars>>

NoError == [type |-> "none", op |-> "none"]

NoCycle == [n |-> 0, day |-> 0, candle |-> None, outcome |-> "none"]

Symbol == monitored_symbols[i]

(* The state of main() while no run is in progress, but for the store. *)
MainAtRest ==
    /\ today = 1
    /\ exchange_day = 1
    /\ monitored_symbols = <<"BTC">>
    /\ pc = "idle"
    /\ i = 0
    /\ candle = None
    /\ existing_record = None
    /\ is_new_high = FALSE
    /\ is_new_low = FALSE
    /\ sent = <<>>
    /\ error = NoError
    /\ cycles = 0
    /\ last_cycle = [s \in Symbols |-> NoCycle]
    /\ touched = {}
    /\ seed_fetches = [s \in Symbols |-> 0]

(* The state of main() while no run is in progress (the other specs). *)
MainIdle ==
    /\ tables = [s \in {} |-> {}]
    /\ MainAtRest

Init ==
    /\ tables = [s \in {} |-> {}]
    /\ today = 1
    /\ exchange_day = 1
    /\ monitored_symbols \in {<<"BTC">>, <<"BTC", "ETH">>}
    /\ pc = "idle"
    /\ i = 0
    /\ candle = None
    /\ existing_record = None
    /\ is_new_high = FALSE
    /\ is_new_low = FALSE
    /\ sent = <<>>
    /\ error = NoError
    /\ cycles = 0
    /\ last_cycle = [s \in Symbols |-> NoCycle]
    /\ touched = {}
    /\ seed_fetches = [s \in Symbols |-> 0]
    /\ CallsIdle

(* ------------------------------- clocks -------------------------------- *)
(* The local date passes midnight, between two runs or between two steps  *)
(* of main()'s loops.                                                      *)
LocalMidnight ==
    /\ pc \in {"idle", "process"}
    /\ today < MaxDay
    /\ exchange_day = today
    /\ today' = today + 1
    /\ UNCHANGED <<tables, exchange_day, monitored_symbols, pc, i, candle,
                   existing_record, is_new_high, is_new_low, sent, error,
                   cycles, last_cycle>>
    /\ UNCHANGED touched
    /\ UNCHANGED seed_fetches
    /\ UNCHANGED call_vars

(* The exchange opens the candle of the new day. *)
ExchangeRoll ==
    /\ pc \in {"idle", "process"}
    /\ exchange_day < today
    /\ exchange_day' = today
    /\ UNCHANGED <<tables, today, monitored_symbols, pc, i, candle,
                   existing_record, is_new_high, is_new_low, sent, error,
                   cycles, last_cycle>>
    /\ UNCHANGED touched
    /\ UNCHANGED seed_fetches
    /\ UNCHANGED call_vars

(* -------------------------------- main --------------------------------- *)
(* An exception leaves process_symbol / initialize_symbol_table and main:  *)
(* the run ends (sys.exit(1)) with what was committed and what was sent   *)
(* so far; the locals are gone.                                            *)
Raise(type, op) ==
    /\ pc' = "idle"
    /\ i' = 0
    /\ error' = [type |-> type, op |-> op]
    /\ candle' = None
    /\ existing_record' = None
    /\ is_new_high' = FALSE
    /\ is_new_low' = FALSE

(* validate_env: the required variables that are unset or empty. *)
required_vars == {"TELEGRAM_BOT_TOKEN", "TELEGRAM_CHAT_ID", "MONITORED_SYMBOLS"}

validate_env(env) == {var \in required_vars : var \notin env}

(* Variant: the environment validated after the collaborators are built. *)
ConfigError_late ==
    /\ pc = "idle"
    /\ \E env \in SUBSET required_vars : validate_env(env) # {}
    /\ Raise("SystemExit", "validate_env")
    /\ sent' = <<>>
    /\ touched' = {"TelegramUtil", "DatabaseUtil"}
    /\ UNCHANGED seed_fetches
    /\ UNCHANGED <<tables, today, exchange_day, monitored_symbols, cycles,
                   last_cycle>>
    /\ UNCHANGED call_vars

(* main() with a required variable missing: validate_env prints the        *)
(* missing names and calls sys.exit(1), the first statement of main().     *)
ConfigError ==
    /\ pc = "idle"
    /\ \E env \in SUBSET required_vars : validate_env(env) # {}
    /\ Raise("SystemExit", "validate_env")
    /\ sent' = <<>>
    /\ touched' = {}
    /\ UNCHANGED seed_fetches
    /\ UNCHANGED <<tables, today, exchange_day, monitored_symbols, cycles,
                   last_cycle>>
    /\ UNCHANGED call_vars

(* main(), up to the first loop: a run starts. *)
MainStart ==
    /\ pc = "idle"
    /\ cycles + Len(monitored_symbols) <= MaxCycles
    /\ \E env \in SUBSET required_vars : validate_env(env) = {}
    /\ pc' = "init"
    /\ i' = 1
    /\ candle' = None
    /\ existing_record' = None
    /\ is_new_high' = FALSE
    /\ is_new_low' = FALSE
    /\ sent' = <<>>
    /\ error' = NoError
    /\ UNCHANGED <<tables, today, exchange_day, monitored_symbols, cycles,
                   last_cycle>>
    /\ touched' = {"TelegramUtil", "DatabaseUtil"}
    /\ UNCHANGED seed_fetches
    /\ UNCHANGED call_vars

(* The first loop of main() moves to its next symbol, or to the second. *)
NextInit ==
    /\ pc' = IF i < Len(monitored_symbols) THEN "init" ELSE "process"
    /\ i' = IF i < Len(monitored_symbols) THEN i + 1 ELSE 1

(* Variant: a table that is there but empty is seeded again. *)
InitExists_reseeds_empty ==
    /\ pc = "init"
    /\ table_exists(tables, Symbol)
    /\ NextInit
    /\ UNCHANGED <<tables, today, exchange_day, monitored_symbols, candle,
                   existing_record, is_new_high, is_new_low, sent, error,
                   cycles, last_cycle>>
    /\ touched' = IF tables[Symbol] = {} THEN touched \cup {"exchange"}
                  ELSE touched
    /\ seed_fetches' = IF tables[Symbol] = {}
                       THEN [seed_fetches EXCEPT ![Symbol] = @ + 1]
                       ELSE seed_fetches
    /\ UNCHANGED call_vars

(* initialize_symbol_table, the table is there: nothing to do. *)
InitExists ==
    /\ pc = "init"
    /\ table_exists(tables, Symbol)
    /\ NextInit
    /\ UNCHANGED <<tables, today, exchange_day, monitored_symbols, candle,
                   existing_record, is_new_high, is_new_low, sent, error,
                   cycles, last_cycle>>
    /\ UNCHANGED touched
    /\ UNCHANGED seed_fetches
    /\ UNCHANGED call_vars

(* Variant: a failed seed fetch raises out of initialize_symbol_table. *)
InitSeedFailed_raises ==
    /\ pc = "init"
    /\ ~table_exists(tables, Symbol)
    /\ tables' = create_table(tables, Symbol)
    /\ Raise("RequestException", "get_daily_candles")
    /\ UNCHANGED <<today, exchange_day, monitored_symbols, sent, cycles,
                   last_cycle>>
    /\ touched' = touched \cup {"exchange"}
    /\ seed_fetches' = [seed_fetches EXCEPT ![Symbol] = @ + 1]
    /\ UNCHANGED call_vars

(* initialize_symbol_table, no table: create it; the seed fetch returns    *)
(* None or an empty list, and the table stays empty.                       *)
InitSeedFailed ==
    /\ pc = "init"
    /\ ~table_exists(tables, Symbol)
    /\ tables' = create_table(tables, Symbol)
    /\ NextInit
    /\ UNCHANGED <<today, exchange_day, monitored_symbols, candle,
                   existing_record, is_new_high, is_new_low, sent, error,
                   cycles, last_cycle>>
    /\ touched' = touched \cup {"exchange"}
    /\ seed_fetches' = [seed_fetches EXCEPT ![Symbol] = @ + 1]
    /\ UNCHANGED call_vars

(* initialize_symbol_table, no table: create it and fetch the history; the *)
(* store fails while inserting it (sqlite3.OperationalError): the table,   *)
(* committed by create_table, stays empty and the exception leaves main(). *)
InitSeedAborted ==
    /\ pc = "init"
    /\ ~table_exists(tables, Symbol)
    /\ tables' = create_table(tables, Symbol)
    /\ Raise("OperationalError", "bulk_insert_candles")
    /\ UNCHANGED <<today, exchange_day, monitored_symbols, sent, cycles,
                   last_cycle>>
    /\ touched' = touched \cup {"exchange"}
    /\ seed_fetches' = [seed_fetches EXCEPT ![Symbol] = @ + 1]
    /\ UNCHANGED call_vars

(* initialize_symbol_table, no table: create it, fetch the history,        *)
(* reverse it to oldest first and insert it in one transaction.  A         *)
(* failing INSERT raises before the commit: no row of it is kept.          *)
InitSeed ==
    /\ pc = "init"
    /\ ~table_exists(tables, Symbol)
    /\ \E ps \in SeedHistories(exchange_day) :
         LET candles == Reverse(HistoryOf(ps, exchange_day))
             created == create_table(tables, Symbol)
         IN  IF bulk_insert_raises(created[Symbol], candles)
             THEN /\ tables' = created
                  /\ Raise("IntegrityError", "bulk_insert_candles")
             ELSE /\ tables' = [created EXCEPT
                                  ![Symbol] = bulk_insert_candles(@, candles)]
                  /\ NextInit
                  /\ UNCHANGED <<candle, existing_record, is_new_high,
                                 is_new_low, error>>
    /\ UNCHANGED <<today, exchange_day, monitored_symbols, sent, cycles,
                   last_cycle>>
    /\ touched' = touched \cup {"exchange"}
    /\ seed_fetches' = [seed_fetches EXCEPT ![Symbol] = @ + 1]
    /\ UNCHANGED call_vars

(* ---------------------------- send_alert ------------------------------- *)
(* send_alert: the period extrema of the alert's kind, read from the store *)
(* as it is when the alert is composed, and the message built from them.   *)
send_alert(rows, symbol, alert_type, current_price, now) ==
    LET period(days) == IF alert_type = "HIGH"
                        THEN get_period_high(rows, days, now)
                        ELSE get_period_low(rows, days, now)
    IN  [symbol |-> symbol,
         alert_type |-> alert_type,
         current_price |-> current_price,
         price_5d |-> period(5),
         price_20d |-> period(20),
         price_60d |-> period(60),
         price_120d |-> period(120)]

(* send_alert, the try block: the ways the delivery of one alert can go.   *)
(* The year's candles are read for the chart; with candles the chart is    *)
(* drawn and sent as a photo with the message as caption, without any the  *)
(* message is sent as text.  An exception of any of these calls is caught: *)
(* nothing is delivered, and the error text is reported with               *)
(* send_test_message, whose own failure is ignored.                        *)
deliveries(rows, now) ==
    LET candles == get_period_candles(rows, 365, now)
        calls == IF candles # <<>>
                 THEN {"get_period_candles", "create_chart", "send_photo"}
                 ELSE {"get_period_candles", "send_message"}
    IN  {[via |-> IF candles # <<>> THEN "send_photo" ELSE "send_message",
          failed |-> "none", reported |-> FALSE]}
        \cup {[via |-> "none", failed |-> f, reported |-> b] :
                 f \in calls, b \in BOOLEAN}

(* --------------------------- process_symbol ---------------------------- *)
(* The flags of process_symbol, from the row read before the write. *)
(* Variant: the flag computed from the fetched candle's own high. *)
new_high_own(c, record) == c.trade_price > c.high_price

new_high(c, record) == c.trade_price > record.high_price
new_low(c, record) == c.trade_price < record.low_price

(* The cycle of Symbol returns: the second loop of main() moves on, and    *)
(* after the last symbol main() closes the store and ends.                 *)
NextSymbol(c, outcome) ==
    /\ pc' = IF i < Len(monitored_symbols) THEN "process" ELSE "idle"
    /\ i' = IF i < Len(monitored_symbols) THEN i + 1 ELSE 0
    /\ candle' = None
    /\ existing_record' = None
    /\ is_new_high' = FALSE
    /\ is_new_low' = FALSE
    /\ sent' = <<>>
    /\ last_cycle' = [last_cycle EXCEPT ![Symbol] =
                        [n |-> IF pc = "process" THEN cycles + 1 ELSE cycles,
                         day |-> today, candle |-> c, outcome |-> outcome]]

(* Variant: a failed fetch raises out of process_symbol. *)
FetchFailed_raises ==
    /\ pc = "process"
    /\ cycles' = cycles + 1
    /\ Raise("RequestException", "get_latest_daily_candle")
    /\ UNCHANGED <<tables, today, exchange_day, monitored_symbols, sent,
                   last_cycle>>
    /\ touched' = touched \cup {"exchange"}
    /\ UNCHANGED seed_fetches
    /\ UNCHANGED call_vars

(* process_symbol, get_latest_daily_candle returns None: skip the symbol. *)
FetchFailed ==
    /\ pc = "process"
    /\ cycles' = cycles + 1
    /\ NextSymbol(None, "skipped")
    /\ UNCHANGED <<tables, today, exchange_day, monitored_symbols, error>>
    /\ touched' = touched \cup {"exchange"}
    /\ UNCHANGED seed_fetches
    /\ UNCHANGED call_vars

(* Variant: the row is written first and the comparison reads it after. *)
Fetch_write_first ==
    /\ pc = "process"
    /\ cycles' = cycles + 1
    /\ \E c \in Candles({exchange_day}) :
         LET written == update_candle(tables[Symbol], c, today)
             record == get_record_by_date(written, today)
             high == record # None /\ new_high(c, record)
             low == record # None /\ new_low(c, record)
         IN  /\ candle' = c
             /\ tables' = [tables EXCEPT ![Symbol] = written]
             /\ existing_record' = record
             /\ is_new_high' = high
             /\ is_new_low' = low
             /\ pc' = IF record = None THEN "insert"
                      ELSE IF high THEN "alert_high"
                      ELSE IF low THEN "alert_low"
                      ELSE "update"
    /\ sent' = <<>>
    /\ UNCHANGED <<today, exchange_day, monitored_symbols, i, error,
                   last_cycle>>
    /\ touched' = touched \cup {"exchange"}
    /\ UNCHANGED seed_fetches
    /\ UNCHANGED call_vars

(* process_symbol up to the branch: fetch the latest candle, read today's  *)
(* row, and with a row compute the two flags from it.                      *)
Fetch ==
    /\ pc = "process"
    /\ cycles' = cycles + 1
    /\ \E c \in Candles({exchange_day}) :
         LET record == get_record_by_date(tables[Symbol], today)
             high == record # None /\ new_high(c, record)
             low == record # None /\ new_low(c, record)
         IN  /\ candle' = c
             /\ existing_record' = record
             /\ is_new_high' = high
             /\ is_new_low' = low
             /\ pc' = IF record = None THEN "insert"
                      ELSE IF high THEN "alert_high"
                      ELSE IF low THEN "alert_low"
                      ELSE "update"
    /\ sent' = <<>>
    /\ UNCHANGED <<tables, today, exchange_day, monitored_symbols, i, error,
                   last_cycle>>
    /\ touched' = touched \cup {"exchange"}
    /\ UNCHANGED seed_fetches
    /\ UNCHANGED call_vars

(* process_symbol, no row for today: insert_candle(symbol, candle). *)
Insert ==
    /\ pc = "insert"
    /\ IF insert_raises(tables[Symbol], candle)
       THEN /\ Raise("IntegrityError", "insert_candle")
            /\ UNCHANGED <<tables, sent, last_cycle>>
       ELSE /\ tables' = [tables EXCEPT ![Symbol] = insert_candle(@, candle)]
            /\ NextSymbol(candle, "inserted")
            /\ UNCHANGED error
    /\ UNCHANGED <<today, exchange_day, monitored_symbols, cycles>>
    /\ UNCHANGED touched
    /\ UNCHANGED seed_fetches
    /\ UNCHANGED call_vars

(* Variant: the HIGH alert composed from the store as the update leaves it. *)
AlertHigh_after_write ==
    /\ pc = "alert_high"
    /\ \E d \in deliveries(tables[Symbol], today) :
         sent' = Append(sent, send_alert(update_candle(tables[Symbol], candle, today),
                                         Symbol, "HIGH", candle.trade_price, today)
                              @@ d)
    /\ pc' = IF is_new_low THEN "alert_low" ELSE "update"
    /\ UNCHANGED <<tables, today, exchange_day, monitored_symbols, i, candle,
                   existing_record, is_new_high, is_new_low, error, cycles,
                   last_cycle>>
    /\ UNCHANGED touched
    /\ UNCHANGED seed_fetches
    /\ UNCHANGED call_vars

(* Variant: an exception of the delivery leaves send_alert. *)
AlertHigh_raises ==
    /\ pc = "alert_high"
    /\ \E d \in deliveries(tables[Symbol], today) :
         /\ sent' = Append(sent, send_alert(tables[Symbol], Symbol, "HIGH",
                                            candle.trade_price, today) @@ d)
         /\ IF d.failed = "none"
            THEN /\ pc' = IF is_new_low THEN "alert_low" ELSE "update"
                 /\ UNCHANGED <<i, candle, existing_record, is_new_high,
                                is_new_low, error>>
            ELSE Raise("Exception", d.failed)
    /\ UNCHANGED <<tables, today, exchange_day, monitored_symbols, cycles,
                   last_cycle>>
    /\ UNCHANGED touched
    /\ UNCHANGED seed_fetches
    /\ UNCHANGED call_vars

(* Variant: after a HIGH alert the LOW alert is skipped. *)
AlertHigh_skips_low ==
    /\ pc = "alert_high"
    /\ \E d \in deliveries(tables[Symbol], today) :
         sent' = Append(sent, send_alert(tables[Symbol], Symbol, "HIGH",
                                         candle.trade_price, today) @@ d)
    /\ pc' = "update"
    /\ UNCHANGED <<tables, today, exchange_day, monitored_symbols, i, candle,
                   existing_record, is_new_high, is_new_low, error, cycles,
                   last_cycle>>
    /\ UNCHANGED touched
    /\ UNCHANGED seed_fetches
    /\ UNCHANGED call_vars

(* process_symbol, is_new_high: send_alert(symbol, 'HIGH', current_price). *)
AlertHigh ==
    /\ pc = "alert_high"
    /\ \E d \in deliveries(tables[Symbol], today) :
         sent' = Append(sent, send_alert(tables[Symbol], Symbol, "HIGH",
                                         candle.trade_price, today) @@ d)
    /\ pc' = IF is_new_low THEN "alert_low" ELSE "update"
    /\ UNCHANGED <<tables, today, exchange_day, monitored_symbols, i, candle,
                   existing_record, is_new_high, is_new_low, error, cycles,
                   last_cycle>>
    /\ UNCHANGED touched
    /\ UNCHANGED seed_fetches
    /\ UNCHANGED call_vars

(* process_symbol, is_new_low: send_alert(symbol, 'LOW', current_price). *)
AlertLow ==
    /\ pc = "alert_low"
    /\ \E d \in deliveries(tables[Symbol], today) :
         sent' = Append(sent, send_alert(tables[Symbol], Symbol, "LOW",
                                         candle.trade_price, today) @@ d)
    /\ pc' = "update"
    /\ UNCHANGED <<tables, today, exchange_day, monitored_symbols, i, candle,
                   existing_record, is_new_high, is_new_low, error, cycles,
                   last_cycle>>
    /\ UNCHANGED touched
    /\ UNCHANGED seed_fetches
    /\ UNCHANGED call_vars

(* process_symbol, last step with a row: update_candle(symbol, candle,     *)
(* today_date).                                                            *)
Update ==
    /\ pc = "update"
    /\ tables' = [tables EXCEPT ![Symbol] = update_candle(@, candle, today)]
    /\ NextSymbol(candle, "updated")
    /\ UNCHANGED <<today, exchange_day, monitored_symbols, error, cycles>>
    /\ UNCHANGED touched
    /\ UNCHANGED seed_fetches
    /\ UNCHANGED call_vars

(* A store call of the step in progress fails (sqlite3.OperationalError:   *)
(* disk full, database locked): nothing is written by it, and the          *)
(* exception leaves main().                                                *)
StoreOp ==
    CASE pc = "init" -> "table_exists"
      [] pc = "process" -> "get_record_by_date"
      [] pc = "insert" -> "insert_candle"
      [] pc = "alert_high" -> "get_period_high"
      [] pc = "alert_low" -> "get_period_low"
      [] pc = "update" -> "update_candle"
      [] OTHER -> "none"

StorageError ==
    /\ pc \in {"init", "process", "insert", "alert_high", "alert_low", "update"}
    /\ Raise("OperationalError", StoreOp)
    /\ cycles' = IF pc = "process" THEN cycles + 1 ELSE cycles
    /\ UNCHANGED <<tables, today, exchange_day, monitored_symbols, sent,
                   last_cycle>>
    /\ touched' = IF pc = "process" THEN touched \cup {"exchange"} ELSE touched
    /\ UNCHANGED seed_fetches
    /\ UNCHANGED call_vars

Next ==
    \/ LocalMidnight
    \/ ExchangeRoll
    \/ ConfigError
    \/ MainStart
    \/ InitExists
    \/ InitSeedFailed
    \/ InitSeed
    \/ InitSeedAborted
    \/ FetchFailed
    \/ Fetch
    \/ Insert
    \/ AlertHigh
    \/ AlertLow
    \/ Update
    \/ StorageError

Spec == Init /\ [][Next]_vars

(* ========================= get_daily_candles =========================== *)
(* The paginated fetch of a symbol's daily candles, request by request,    *)
(* against an exchange that has `listed` days of history up to its current *)
(* day and answers a request with the newest candles older than 'to'.      *)
MaxCount == 5
MaxListed == 6
MaxBatch == 2

(* min(remaining_count, 200), the 200 scaled down. *)
batch_size == IF remaining_count < MaxBatch THEN remaining_count ELSE MaxBatch

(* The dates the exchange has candles of, older than 'to'. *)
available ==
    {d \in (exchange_day - listed + 1)..exchange_day :
        to_timestamp = <<>> \/ d < to_timestamp[1]}

(* The dates of S, newest first. *)
RECURSIVE NewestFirst(_)
NewestFirst(S) ==
    IF S = {} THEN <<>> ELSE <<Max(S)>> \o NewestFirst(S \ {Max(S)})

(* The responses the exchange can give to one request when it has candles  *)
(* older than 'to': at most batch_size of them, newest first (a day        *)
(* without a candle is skipped, a page can be short).                      *)
responses ==
    {[k \in 1..Cardinality(S) |-> SeedCandle(1, NewestFirst(S)[k])] :
        S \in {T \in SUBSET available :
                   Cardinality(T) >= 1 /\ Cardinality(T) <= batch_size}}

(* The params of one request: 'to' is left out while to_timestamp is None. *)
params == [count |-> batch_size, to |-> to_timestamp]

FetchInit ==
    /\ MainIdle
    /\ SeedIdle
    /\ FormatIdle
    /\ AlertIdle
    /\ count \in 0..MaxCount
    /\ listed \in 0..MaxListed
    /\ all_candles = <<>>
    /\ remaining_count = count
    /\ to_timestamp = <<>>
    /\ fetch_pc = "request"
    /\ fetched = None
    /\ requested = <<>>

(* get_daily_candles returns. *)
Return(value) ==
    /\ fetch_pc' = "done"
    /\ fetched' = value

(* requests.get is called with the params of this turn of the loop. *)
Request ==
    /\ fetch_pc = "request"
    /\ remaining_count > 0
    /\ requested' = Append(requested, params)

(* Variant: a response that is not a list is salvaged like an exception. *)
PageNotList_salvaged ==
    /\ Request
    /\ Return(IF Len(all_candles) > 0 THEN [list |-> all_candles] ELSE None)
    /\ UNCHANGED <<count, listed, all_candles, remaining_count, to_timestamp>>
    /\ UNCHANGED <<main_vars, seed_vars, format_vars, alert_vars>>

(* The request raises (connection error, timeout), raise_for_status raises *)
(* on an HTTP error status, or the body is not JSON or a candle of it      *)
(* lacks a field: the except clause returns what was accumulated, or None. *)
PageFails ==
    /\ Request
    /\ Return(IF Len(all_candles) > 0 THEN [list |-> all_candles] ELSE None)
    /\ UNCHANGED <<count, listed, all_candles, remaining_count, to_timestamp>>
    /\ UNCHANGED <<main_vars, seed_vars, format_vars, alert_vars>>

(* The response is JSON but not a list: return None. *)
PageNotList ==
    /\ Request
    /\ Return(None)
    /\ UNCHANGED <<count, listed, all_candles, remaining_count, to_timestamp>>
    /\ UNCHANGED <<main_vars, seed_vars, format_vars, alert_vars>>

(* The response is the empty list: the loop is left, and what was          *)
(* accumulated is returned.                                                *)
PageEmpty ==
    /\ Request
    /\ available = {}
    /\ Return([list |-> all_candles])
    /\ UNCHANGED <<count, listed, all_candles, remaining_count, to_timestamp>>
    /\ UNCHANGED <<main_vars, seed_vars, format_vars, alert_vars>>

(* Variant: a page is added without being counted. *)
Page_uncounted ==
    /\ Request
    /\ \E data \in responses :
           /\ all_candles' = all_candles \o data
           /\ to_timestamp' = <<data[Len(data)].candle_date_time_kst>>
    /\ UNCHANGED <<count, listed, remaining_count, fetch_pc, fetched>>
    /\ UNCHANGED <<main_vars, seed_vars, format_vars, alert_vars>>

(* Variant: 'to' is the date-time of the newest candle of the page. *)
Page_to_newest ==
    /\ Request
    /\ \E data \in responses :
           /\ all_candles' = all_candles \o data
           /\ to_timestamp' = <<data[1].candle_date_time_kst>>
           /\ remaining_count' = remaining_count - Len(data)
    /\ UNCHANGED <<count, listed, fetch_pc, fetched>>
    /\ UNCHANGED <<main_vars, seed_vars, format_vars, alert_vars>>

(* The response is a list of candles: they are added, 'to' becomes the     *)
(* date-time of the oldest of them, the remaining count goes down by their *)
(* number, and the loop test comes next.                                   *)
Page ==
    /\ Request
    /\ \E data \in responses :
           LET batch_candles == data
           IN  /\ all_candles' = all_candles \o batch_candles
               /\ to_timestamp' = <<data[Len(data)].candle_date_time_kst>>
               /\ remaining_count' = remaining_count - Len(batch_candles)
    /\ UNCHANGED <<count, listed, fetch_pc, fetched>>
    /\ UNCHANGED <<main_vars, seed_vars, format_vars, alert_vars>>

(* The loop test fails: nothing remains to be fetched, and the accumulated *)
(* candles are returned (the empty list when count is 0).                  *)
LoopExit ==
    /\ fetch_pc = "request"
    /\ ~(remaining_count > 0)
    /\ Return([list |-> all_candles])
    /\ UNCHANGED <<count, listed, all_candles, remaining_count, to_timestamp,
                   requested>>
    /\ UNCHANGED <<main_vars, seed_vars, format_vars, alert_vars>>

FetchNext ==
    \/ PageFails
    \/ PageNotList
    \/ PageEmpty
    \/ Page
    \/ LoopExit

FetchSpec == FetchInit /\ [][FetchNext]_vars

(* Every page request returns or raises, and the function runs on: the     *)
(* call takes its next step while it has one.                              *)
FetchLiveSpec == FetchSpec /\ WF_vars(FetchNext)

(* ========================= bulk_insert_candles ========================= *)
(* initialize_symbol_table's store calls on a symbol without a table:      *)
(* create_table, then bulk_insert_candles with any batch of candles, in    *)
(* any order of dates and with dates repeated.  The INSERTs of the batch   *)
(* belong to one transaction of the connection, committed after the last.  *)
MaxBatchLen == 3

BatchCandles ==
    {[opening_price |-> v, trade_price |-> v + 1, high_price |-> v + 2,
      low_price |-> v - 1, candle_acc_trade_volume |-> v + 3,
      candle_date_time_kst |-> d] : v \in Opens, d \in 0..MaxDay}

Batches == UNION {[1..n -> BatchCandles] : n \in 1..MaxBatchLen}

SeedSymbol == monitored_symbols[1]

seed_frame == <<exchange_day, monitored_symbols, pc, i, candle, existing_record,
                is_new_high, is_new_low, sent, cycles, last_cycle, touched,
                seed_fetches>>

SeedInit ==
    /\ MainIdle
    /\ FetchIdle
    /\ FormatIdle
    /\ AlertIdle
    /\ batch \in Batches
    /\ uncommitted = {}
    /\ seed_pc = "create"

(* The INSERTs the loop of bulk_insert_candles executes before one raises  *)
(* sqlite3.IntegrityError: all of them when none does.                     *)
RECURSIVE inserts_before_raise(_, _)
inserts_before_raise(rows, candles) ==
    IF candles = <<>> \/ insert_raises(rows, Head(candles)) THEN 0
    ELSE 1 + inserts_before_raise(insert_candle(rows, Head(candles)),
                                  Tail(candles))

(* db.create_table(symbol): the empty table, committed. *)
SeedCreate ==
    /\ seed_pc = "create"
    /\ tables' = create_table(tables, SeedSymbol)
    /\ seed_pc' = "call"
    /\ UNCHANGED <<today, error, batch, uncommitted>>
    /\ UNCHANGED <<seed_frame, fetch_vars, format_vars, alert_vars>>

(* bulk_insert_candles returns: every INSERT succeeded and the commit      *)
(* wrote the rows.                                                         *)
BulkInsert ==
    /\ seed_pc = "call"
    /\ ~bulk_insert_raises(tables[SeedSymbol], batch)
    /\ tables' = [tables EXCEPT ![SeedSymbol] = bulk_insert_candles(@, batch)]
    /\ seed_pc' = "returned"
    /\ UNCHANGED <<today, error, batch, uncommitted>>
    /\ UNCHANGED <<seed_frame, fetch_vars, format_vars, alert_vars>>

(* Variant: every INSERT of the batch committed as it is executed. *)
BulkInsertRaises_autocommit ==
    /\ seed_pc = "call"
    /\ \E k \in 0..inserts_before_raise(tables[SeedSymbol], batch) :
         /\ tables' = [tables EXCEPT ![SeedSymbol] =
                          bulk_insert_candles(@, SubSeq(batch, 1, k))]
         /\ uncommitted' = {}
         /\ error' = [type |-> IF k < Len(batch)
                                  /\ insert_raises(
                                        bulk_insert_candles(tables[SeedSymbol],
                                                            SubSeq(batch, 1, k)),
                                        batch[k + 1])
                               THEN "IntegrityError" ELSE "OperationalError",
                      op |-> "bulk_insert_candles"]
    /\ seed_pc' = "raised"
    /\ UNCHANGED <<today, batch>>
    /\ UNCHANGED <<seed_frame, fetch_vars, format_vars, alert_vars>>

(* bulk_insert_candles raises after k INSERTs: the next INSERT repeats a    *)
(* date of the table (IntegrityError), or an INSERT or the commit fails in *)
(* the store (OperationalError).  The k rows stay in the connection's open *)
(* transaction; nothing was committed.                                     *)
BulkInsertRaises ==
    /\ seed_pc = "call"
    /\ \E k \in 0..inserts_before_raise(tables[SeedSymbol], batch) :
         /\ uncommitted' = bulk_insert_candles(tables[SeedSymbol],
                                               SubSeq(batch, 1, k))
                              \ tables[SeedSymbol]
         /\ error' = [type |-> IF k < Len(batch)
                                  /\ insert_raises(
                                        bulk_insert_candles(tables[SeedSymbol],
                                                            SubSeq(batch, 1, k)),
                                        batch[k + 1])
                               THEN "IntegrityError" ELSE "OperationalError",
                      op |-> "bulk_insert_candles"]
    /\ seed_pc' = "raised"
    /\ UNCHANGED <<tables, today, batch>>
    /\ UNCHANGED <<seed_frame, fetch_vars, format_vars, alert_vars>>

(* The exception leaves initialize_symbol_table and main(); the handler of *)
(* __main__ reports it and calls sys.exit(1).  The connection is dropped   *)
(* without a commit, and its open transaction is rolled back.              *)
SeedExit ==
    /\ seed_pc = "raised"
    /\ uncommitted' = {}
    /\ seed_pc' = "exited"
    /\ UNCHANGED <<tables, today, error, batch>>
    /\ UNCHANGED <<seed_frame, fetch_vars, format_vars, alert_vars>>

SeedNext ==
    \/ SeedCreate
    \/ BulkInsert
    \/ BulkInsertRaises
    \/ SeedExit

SeedSpec == SeedInit /\ [][SeedNext]_vars

(* ========================= format_percent_diff ========================= *)
(* The prices format_percent_diff is called with: multiples of 10 (won).   *)
MaxFormatPrice == 12

FormatPrices == {10 * k : k \in 0..MaxFormatPrice}

(* The text of hundredths / 100 with two decimals, as '.2f' writes it. *)
decimal_text(hundredths) ==
    ToString(hundredths \div 100) \o "."
        \o (IF hundredths % 100 < 10 THEN "0" ELSE "")
        \o ToString(hundredths % 100)

(* Variant: the percentage cut after two decimals instead of rounded. *)
two_decimals_cut(num, den) == decimal_text((num * 100) \div den)

(* f"{num / den:.2f}" for num >= 0 and den > 0: the quotient rounded to    *)
(* two decimals, a tie to the even digit.                                  *)
two_decimals(num, den) ==
    LET h == (num * 100) \div den
        r == (num * 100) % den
    IN  decimal_text(IF 2 * r > den \/ (2 * r = den /\ h % 2 = 1)
                     THEN h + 1 ELSE h)

(* format_percent_diff(current_price, period_price); period_price is <<>>  *)
(* for None.  A negative percentage carries its own minus sign.            *)
format_percent_diff(current, period) ==
    IF period = <<>> \/ period[1] = 0 THEN ""
    ELSE LET diff_amount == current - period[1]
         IN  IF diff_amount = 0 THEN ""
             ELSE IF diff_amount > 0
             THEN " (+" \o two_decimals(diff_amount * 100, period[1]) \o "%)"
             ELSE " (-" \o two_decimals((-diff_amount) * 100, period[1]) \o "%)"

FormatInit ==
    /\ MainIdle
    /\ FetchIdle
    /\ SeedIdle
    /\ AlertIdle
    /\ arg_current_price \in FormatPrices
    /\ arg_period_price \in {<<>>} \cup {<<p>> : p \in FormatPrices}
    /\ percent_diff = ""
    /\ format_pc = "call"

(* The call returns its string. *)
FormatCall ==
    /\ format_pc = "call"
    /\ percent_diff' = format_percent_diff(arg_current_price, arg_period_price)
    /\ format_pc' = "returned"
    /\ UNCHANGED <<arg_current_price, arg_period_price>>
    /\ UNCHANGED <<main_vars, fetch_vars, seed_vars, alert_vars>>

FormatNext == FormatCall

FormatSpec == FormatInit /\ [][FormatNext]_vars

(* ============================= send_alert ============================== *)
(* A sequence of alerts over a store that does not change: each symbol has *)
(* no row, today's row, or one row older than the year the chart covers.   *)
MaxAlerts == 3

AlertStores ==
    [Symbols -> {{}, insert_candle({}, SeedCandle(1, 1)),
                     insert_candle({}, SeedCandle(1, 1 - 366))}]

(* glob.glob(f"{data_dir}/chart_{symbol}_*.png") *)
old_charts(symbol) == {f \in chart_files : f.symbol = symbol}

(* f"{data_dir}/chart_{symbol}_{datetime.now().strftime('%y%m%d_%H%M%S')}.png" *)
save_path(symbol) == [symbol |-> symbol, stamp |-> clock]

AlertInit ==
    /\ MainAtRest
    /\ tables \in AlertStores
    /\ FetchIdle
    /\ SeedIdle
    /\ FormatIdle
    /\ alert_pc = "ready"
    /\ alert_symbol = ""
    /\ alert_message = None
    /\ chart_files = {}
    /\ chart_path = <<>>
    /\ dispatched = <<>>
    /\ alert_outcome = "none"
    /\ alerts = 0
    /\ clock = 0

(* send_alert is called, some time after the alert before it: the period   *)
(* prices are read and the message is composed.                            *)
SendAlert ==
    /\ alert_pc = "ready"
    /\ alerts < MaxAlerts
    /\ \E symbol \in Symbols, alert_type \in {"HIGH", "LOW"} :
         /\ alert_symbol' = symbol
         /\ alert_message' = send_alert(tables[symbol], symbol, alert_type, 1,
                                        today)
    /\ clock' \in {clock, clock + 1}
    /\ alerts' = alerts + 1
    /\ dispatched' = <<>>
    /\ chart_path' = <<>>
    /\ alert_outcome' = "none"
    /\ alert_pc' = "get_period_candles"
    /\ UNCHANGED chart_files
    /\ UNCHANGED <<main_vars, fetch_vars, seed_vars, format_vars>>

(* candles = db.get_period_candles(symbol, days=365); `if candles:` *)
GetPeriodCandles ==
    /\ alert_pc = "get_period_candles"
    /\ alert_pc' = IF get_period_candles(tables[alert_symbol], 365, today) # <<>>
                   THEN "create_chart" ELSE "send_message"
    /\ UNCHANGED <<alert_symbol, alert_message, chart_files, chart_path,
                   dispatched, alert_outcome, alerts, clock>>
    /\ UNCHANGED <<main_vars, fetch_vars, seed_vars, format_vars>>

(* Variant: every old chart of the symbol is removed, or create_chart      *)
(* raises.                                                                 *)
RemoveOldCharts_all ==
    /\ alert_pc = "create_chart"
    /\ chart_files' = chart_files \ old_charts(alert_symbol)
    /\ alert_pc' = "savefig"
    /\ UNCHANGED <<alert_symbol, alert_message, chart_path, dispatched,
                   alert_outcome, alerts, clock>>
    /\ UNCHANGED <<main_vars, fetch_vars, seed_vars, format_vars>>

(* create_chart, the clean-up: os.remove of each old chart of the symbol;  *)
(* a remove that raises is logged, and its file stays.                     *)
RemoveOldCharts ==
    /\ alert_pc = "create_chart"
    /\ \E kept \in SUBSET old_charts(alert_symbol) :
         chart_files' = (chart_files \ old_charts(alert_symbol)) \cup kept
    /\ alert_pc' = "savefig"
    /\ UNCHANGED <<alert_symbol, alert_message, chart_path, dispatched,
                   alert_outcome, alerts, clock>>
    /\ UNCHANGED <<main_vars, fetch_vars, seed_vars, format_vars>>

(* create_chart, the rest: the chart is drawn and saved, and its path      *)
(* returned.                                                               *)
SaveChart ==
    /\ alert_pc = "savefig"
    /\ chart_files' = chart_files \cup {save_path(alert_symbol)}
    /\ chart_path' = <<save_path(alert_symbol)>>
    /\ alert_pc' = "send_photo"
    /\ UNCHANGED <<alert_symbol, alert_message, dispatched, alert_outcome,
                   alerts, clock>>
    /\ UNCHANGED <<main_vars, fetch_vars, seed_vars, format_vars>>

(* Variant: the message follows the photo. *)
SendPhoto_and_message ==
    /\ alert_pc = "send_photo"
    /\ chart_path # <<>>
    /\ dispatched' = dispatched
          \o <<[via |-> "send_photo", photo |-> chart_path,
                text |-> alert_message],
               [via |-> "send_message", photo |-> <<>>,
                text |-> alert_message]>>
    /\ alert_outcome' = "sent"
    /\ alert_pc' = "ready"
    /\ UNCHANGED <<alert_symbol, alert_message, chart_files, chart_path,
                   alerts, clock>>
    /\ UNCHANGED <<main_vars, fetch_vars, seed_vars, format_vars>>

(* `if chart_path:` (a path returned is never empty):                      *)
(* telegram.send_photo(chart_path, caption=message)                        *)
SendPhoto ==
    /\ alert_pc = "send_photo"
    /\ chart_path # <<>>
    /\ dispatched' = Append(dispatched, [via |-> "send_photo",
                                         photo |-> chart_path,
                                         text |-> alert_message])
    /\ alert_outcome' = "sent"
    /\ alert_pc' = "ready"
    /\ UNCHANGED <<alert_symbol, alert_message, chart_files, chart_path,
                   alerts, clock>>
    /\ UNCHANGED <<main_vars, fetch_vars, seed_vars, format_vars>>

(* No candles: telegram.send_message(message) *)
SendMessage ==
    /\ alert_pc = "send_message"
    /\ dispatched' = Append(dispatched, [via |-> "send_message",
                                         photo |-> <<>>,
                                         text |-> alert_message])
    /\ alert_outcome' = "sent"
    /\ alert_pc' = "ready"
    /\ UNCHANGED <<alert_symbol, alert_message, chart_files, chart_path,
                   alerts, clock>>
    /\ UNCHANGED <<main_vars, fetch_vars, seed_vars, format_vars>>

(* A call of the try block raises: the query, create_chart before or after *)
(* its clean-up (it logs and raises again), or the telegram call.          *)
AlertRaises ==
    /\ alert_pc \in {"get_period_candles", "create_chart", "savefig",
                      "send_photo", "send_message"}
    /\ alert_pc' = "except"
    /\ UNCHANGED <<alert_symbol, alert_message, chart_files, chart_path,
                   dispatched, alert_outcome, alerts, clock>>
    /\ UNCHANGED <<main_vars, fetch_vars, seed_vars, format_vars>>

(* except Exception: the error text goes out with send_test_message, whose *)
(* own failure is ignored.                                                 *)
ReportError ==
    /\ alert_pc = "except"
    /\ \E delivered \in BOOLEAN :
         dispatched' = IF delivered
                       THEN Append(dispatched, [via |-> "send_test_message",
                                                photo |-> <<>>,
                                                text |-> "error_msg"])
                       ELSE dispatched
    /\ alert_outcome' = "failed"
    /\ alert_pc' = "ready"
    /\ UNCHANGED <<alert_symbol, alert_message, chart_files, chart_path,
                   alerts, clock>>
    /\ UNCHANGED <<main_vars, fetch_vars, seed_vars, format_vars>>

AlertNext ==
    \/ SendAlert
    \/ GetPeriodCandles
    \/ RemoveOldCharts
    \/ SaveChart
    \/ SendPhoto
    \/ SendMessage
    \/ AlertRaises
    \/ ReportError

AlertSpec == AlertInit /\ [][AlertNext]_vars

(* ============================== claims =================================== *)
TodayRow(s) == get_record_by_date(tables[s], today)

WithRow == {"alert_high", "alert_low", "update"}

(* C1: in every reachable state, after any bootstraps and poll cycles over *)
(* any number of runs, a symbol's table holds at most one row per date.    *)
C1_OneRowPerDate ==
    \A s \in DOMAIN tables :
        \A r1, r2 \in tables[s] : r1.reg_date = r2.reg_date => r1 = r2

C1_Witness ==
    \E s \in DOMAIN tables :
        /\ Cardinality(tables[s]) >= 2
        /\ last_cycle[s].n = 2
        /\ last_cycle[s].outcome = "inserted"

(* What C2 requires of every step. *)
C2_Step ==
       /\ (pc = "process" /\ candle' # None /\ TodayRow(Symbol) # None)
           => /\ existing_record' = TodayRow(Symbol)
              /\ is_new_high' = (candle'.trade_price > TodayRow(Symbol).high_price)
              /\ is_new_low' = (candle'.trade_price < TodayRow(Symbol).low_price)
              /\ tables' = tables
       /\ pc \in WithRow
           => /\ existing_record # None
              /\ existing_record = TodayRow(Symbol)
       /\ pc \in {"alert_high", "alert_low"} => tables' = tables

(* C2: with a row for today, the flags are computed from the row as it is  *)
(* stored before the cycle writes: is_new_high = trade price > stored      *)
(* high, is_new_low = trade price < stored low, whatever the candle's own  *)
(* high and low; the row read is still the stored row when update_candle   *)
(* overwrites it.                                                          *)
C2_FlagsFromStoredRow == [][C2_Step]_vars

C2_Witness ==
    /\ pc = "alert_high"
    /\ existing_record.high_price = 1
    /\ candle.trade_price = 2
    /\ candle.high_price = 2

(* What C3 requires of every step. *)
C3_Step ==
       /\ (pc = "process" /\ candle' # None /\ TodayRow(Symbol) = None)
           => /\ pc' = "insert"
              /\ existing_record' = None
              /\ sent' = <<>>
              /\ tables' = tables
       /\ pc = "insert"
           => /\ sent = <<>>
              /\ sent' = <<>>
              /\ existing_record = None
              /\ error' # NoError => tables' = tables
              /\ error' = NoError =>
                   \E r \in tables'[Symbol] :
                       /\ r \notin tables[Symbol]
                       /\ tables'[Symbol] = tables[Symbol] \cup {r}
                       /\ r.open_price = candle.opening_price
                       /\ r.close_price = candle.trade_price
                       /\ r.high_price = candle.high_price
                       /\ r.low_price = candle.low_price
                       /\ r.volume = candle.candle_acc_trade_volume
                       /\ r.reg_date = candle.candle_date_time_kst

C4_InsertKeyedByToday ==
    /\ error # [type |-> "IntegrityError", op |-> "insert_candle"]
    /\ \A s \in DOMAIN tables :
         (last_cycle[s].outcome = "inserted" /\ last_cycle[s].day = today)
             => TodayRow(s) # None

(* What C5 requires of every step. *)
C5_Step ==
       pc \in WithRow =>
         /\ DOMAIN tables' = DOMAIN tables
         /\ \A s \in DOMAIN tables \ {Symbol} : tables'[s] = tables[s]
         /\ Cardinality(tables'[Symbol]) = Cardinality(tables[Symbol])
         /\ \A r \in tables[Symbol] :
              IF r.reg_date # today
              THEN r \in tables'[Symbol]
              ELSE \E q \in tables'[Symbol] :
                       /\ q.idx = r.idx
                       /\ q.open_price = r.open_price
                       /\ q.reg_date = r.reg_date

(* C5: a cycle that finds a row for today leaves that row's open price and *)
(* date, every other row of the symbol and every other symbol's rows       *)
(* unchanged.                                                              *)
C5_UpdateFrame == [][C5_Step]_vars

C5_Witness ==
    /\ monitored_symbols = <<"BTC", "ETH">>
    /\ pc = "idle"
    /\ last_cycle["ETH"].outcome = "updated"
    /\ tables["BTC"] # {}
    /\ TodayRow("ETH").close_price = last_cycle["ETH"].candle.trade_price
    /\ TodayRow("ETH").open_price # last_cycle["ETH"].candle.opening_price

(* What C6 requires of every step. *)
C6_Step ==
       /\ (pc = "update" /\ error' = NoError)
           => LET r == get_record_by_date(tables'[Symbol], today)
              IN  /\ r.idx = existing_record.idx
                  /\ r.open_price = existing_record.open_price
                  /\ r.close_price = candle.trade_price
                  /\ r.high_price = candle.high_price
                  /\ r.low_price = candle.low_price
                  /\ r.volume = candle.candle_acc_trade_volume
       /\ \A s \in DOMAIN tables : \A r \in tables[s] :
              \E q \in tables'[s] : /\ q.idx = r.idx
                                    /\ q.open_price = r.open_price
                                    /\ q.reg_date = r.reg_date
       /\ pc = "update"
           => update_candle(update_candle(tables[Symbol], candle, today),
                            candle, today)
              = update_candle(tables[Symbol], candle, today)

(* C6: an update leaves the row with the open it was created with and the *)
(* update's close, high, low and volume (no running maximum or minimum);   *)
(* no step ever changes the open or the date of a row; the same update     *)
(* applied twice gives the row of applying it once.                        *)
C6_UpsertConverges == [][C6_Step]_vars

C6_Witness ==
    \E s \in DOMAIN tables :
        /\ last_cycle[s].outcome = "updated"
        /\ last_cycle[s].n = 2
        /\ TodayRow(s) # None
        /\ TodayRow(s).open_price = 2
        /\ last_cycle[s].candle.opening_price = 1
        /\ TodayRow(s).high_price = 0
        /\ TodayRow(s).close_price = last_cycle[s].candle.trade_price

(* C7: the cycle of a symbol run again on the same day with the candle of  *)
(* its last completed cycle.                                               *)
Rerun ==
    /\ pc \in WithRow \cup {"insert"}
    /\ last_cycle[Symbol].outcome \in {"inserted", "updated"}
    /\ last_cycle[Symbol].day = today
    /\ last_cycle[Symbol].candle = candle

(* C7 as claimed: the second run sends no alert, for every fetched candle. *)
C7_RerunNoAlertAnyCandle ==
    Rerun => (pc \in {"insert", "update"} /\ sent = <<>>)

(* C7 as amended: the second run sends no alert when the candle's trade    *)
(* price lies within the candle's own low and high.                        *)
C7_RerunNoAlert ==
    (Rerun /\ candle.low_price <= candle.trade_price
           /\ candle.trade_price <= candle.high_price)
        => /\ pc \in {"insert", "update"}
           /\ sent = <<>>
           /\ ~is_new_high
           /\ ~is_new_low

C7_Witness ==
    /\ Rerun
    /\ pc = "update"
    /\ last_cycle[Symbol].outcome = "updated"
    /\ candle.trade_price = candle.high_price
    /\ candle.low_price < candle.trade_price

C8_Step ==
       /\ (sent' # sent /\ sent' # <<>>)
           => /\ pc \in {"alert_high", "alert_low"}
              /\ (pc = "alert_high") = (Len(sent) = 0 /\ is_new_high)
              /\ pc = "alert_low" => is_new_low
              /\ existing_record = TodayRow(Symbol)
              /\ tables' = tables
       /\ (tables' # tables /\ pc \notin {"init", "insert"})
           => /\ pc = "update"
              /\ pc' \in {"process", "idle"}
              /\ Len(sent) = (IF is_new_high THEN 1 ELSE 0)
                             + (IF is_new_low THEN 1 ELSE 0)
       /\ pc = "insert" => sent = <<>>

PeriodWith(s, kind, days, today_high, today_low) ==
    LET others == {r \in tables[s] :
                      r.reg_date # today /\ r.reg_date >= today - days}
        highs == {r.high_price : r \in others} \cup {today_high}
        lows == {r.low_price : r \in others} \cup {today_low}
        v == IF kind = "HIGH" THEN Max(highs) ELSE Min(lows)
    IN  IF v = 0 THEN <<>> ELSE <<v>>

AlertShows(a, today_high, today_low) ==
    /\ a.price_5d = PeriodWith(a.symbol, a.alert_type, 5, today_high, today_low)
    /\ a.price_20d = PeriodWith(a.symbol, a.alert_type, 20, today_high, today_low)
    /\ a.price_60d = PeriodWith(a.symbol, a.alert_type, 60, today_high, today_low)
    /\ a.price_120d = PeriodWith(a.symbol, a.alert_type, 120, today_high, today_low)

C10_Step ==
    (pc = "process" /\ cycles' # cycles /\ candle' = None
                    /\ error'.op # "get_record_by_date")
        => /\ tables' = tables
           /\ sent' = <<>>
           /\ error' = NoError
           /\ last_cycle'[Symbol].outcome = "skipped"
           /\ IF i < Len(monitored_symbols)
              THEN pc' = "process" /\ i' = i + 1
              ELSE pc' = "idle"

(* C10: when the fetch of the latest candle fails, the symbol's cycle ends *)
(* with the store unchanged and no alert, and main() goes on to the next   *)
(* symbol; a run that ends without an exception has run the cycle of every *)
(* monitored symbol, in order.                                             *)
C10_FetchFailureSkips ==
    /\ [][C10_Step]_vars
    /\ [](pc = "idle" /\ error = NoError /\ cycles > 0
            => \A k \in 1..Len(monitored_symbols) :
                   last_cycle[monitored_symbols[k]].n
                       = cycles - Len(monitored_symbols) + k)

C10_Witness ==
    /\ monitored_symbols = <<"BTC", "ETH">>
    /\ pc = "idle"
    /\ error = NoError
    /\ last_cycle["BTC"].outcome = "skipped"
    /\ last_cycle["ETH"].outcome = "updated"
    /\ last_cycle["ETH"].n = last_cycle["BTC"].n + 1

(* What C11 requires of every step. *)
C11_Step ==
       /\ (Len(sent') = Len(sent) + 1
             /\ sent'[Len(sent')].failed = "get_period_candles")
           => /\ pc' = "idle"
              /\ error' # NoError
       /\ (error' # error /\ error'.type \in {"OperationalError", "IntegrityError"})
           => /\ pc' = "idle"
              /\ sent' = sent
              /\ last_cycle' = last_cycle

(* C11: a failure of any store call of a symbol's cycle (the lookup of      *)
(* today's row, the period queries, the candles read for the chart, the    *)
(* insert, the update) leaves the cycle: the run ends with the exception,  *)
(* and no later write or alert of the cycle happens.                       *)
C11_StorageFailuresPropagate == [][C11_Step]_vars

(* What C12 requires of every step. *)
C12_Step ==
       /\ (pc \in {"alert_high", "alert_low"}
             /\ Len(sent') = Len(sent) + 1
             /\ sent'[Len(sent')].failed \in {"create_chart", "send_photo",
                                              "send_message"})
           => /\ error' = NoError
              /\ sent'[Len(sent')].via = "none"
              /\ pc' = IF pc = "alert_high" /\ is_new_low
                       THEN "alert_low" ELSE "update"
              /\ i' = i
              /\ candle' = candle
              /\ tables' = tables
       /\ (pc = "update" /\ error' = NoError)
           => /\ get_record_by_date(tables'[Symbol], today).close_price
                    = candle.trade_price
              /\ IF i < Len(monitored_symbols)
                 THEN pc' = "process" /\ i' = i + 1
                 ELSE pc' = "idle"

(* C12: a failure of the chart or of the delivery of an alert, the report  *)
(* to the error channel failing too or not, stays inside send_alert: no    *)
(* exception is raised, the cycle goes on to its next alert or its update, *)
(* and the update writes the row and hands over to the next symbol.        *)
C12_AlertFailuresContained == [][C12_Step]_vars

C12_Witness ==
    /\ monitored_symbols = <<"BTC", "ETH">>
    /\ i = 1
    /\ pc = "update"
    /\ error = NoError
    /\ Len(sent) = 1
    /\ sent[1].failed = "send_photo"
    /\ ~sent[1].reported

(* C13: when get_daily_candles ends with candles accumulated, whether a    *)
(* page request failed by an exception, an HTTP error status or a response *)
(* that is not a list, it returns the accumulated candles, newest first;   *)
(* it returns None only when nothing was accumulated.                      *)
C13_PartialHistorySalvaged ==
    fetch_pc = "done" =>
        /\ Len(all_candles) > 0 => fetched = [list |-> all_candles]
        /\ fetched = None => Len(all_candles) = 0

(* The windows asked of the store: the alert's four, and two short ones. *)
WindowDays == {0, 1, 5, 20, 60, 120}

(* C14: get_period_high / get_period_low return the maximum high / the     *)
(* minimum low over exactly the rows dated today - days or later, today's  *)
(* row included, and return None if and only if no row qualifies, whatever *)
(* the rows hold (a high or a low of 0 included).                          *)
C14_WindowExtrema ==
    \A s \in DOMAIN tables : \A days \in WindowDays :
        LET qualifying == {r \in tables[s] : r.reg_date >= today - days}
        IN  /\ get_period_high(tables[s], days, today)
                  = IF qualifying = {} THEN <<>>
                    ELSE <<Max({r.high_price : r \in qualifying})>>
            /\ get_period_low(tables[s], days, today)
                  = IF qualifying = {} THEN <<>>
                    ELSE <<Min({r.low_price : r \in qualifying})>>

(* The candles get_period_candles returns for a window are in strictly     *)
(* ascending order of date.                                                *)
Ascending(series) ==
    \A j, k \in 1..Len(series) :
        j < k => series[j].candle_date_time_kst < series[k].candle_date_time_kst

(* C15 as claimed: after bulk_insert_candles of N candles of N distinct    *)
(* dates into a new table, get_period_candles returns exactly N candles,   *)
(* in ascending order of date, no date twice.                              *)
C15_FullSeriesAllRows ==
    seed_pc = "returned" =>
        \A days \in WindowDays :
            LET series == get_period_candles(tables[SeedSymbol], days, today)
            IN  /\ Len(series) = Len(batch)
                /\ Ascending(series)

(* C15 as amended: it returns exactly the candles of the batch dated       *)
(* today - days or later, each with the fields it was inserted with, in    *)
(* ascending order of date, no date twice: all N when every date of the    *)
(* batch lies in the window.                                               *)
C15_FullSeriesWindowRows ==
    seed_pc = "returned" =>
        \A days \in WindowDays :
            LET series == get_period_candles(tables[SeedSymbol], days, today)
                inside == {k \in 1..Len(batch) :
                              batch[k].candle_date_time_kst >= today - days}
            IN  /\ Len(series) = Cardinality(inside)
                /\ Ascending(series)
                /\ \A k \in inside : \E j \in 1..Len(series) : series[j] = batch[k]
                /\ inside = 1..Len(batch) => Len(series) = Len(batch)

C15_Witness ==
    /\ seed_pc = "returned"
    /\ Len(batch) = 3
    /\ batch[1].candle_date_time_kst = 2
    /\ batch[2].candle_date_time_kst = 0
    /\ batch[3].candle_date_time_kst = 1
    /\ Len(get_period_candles(tables[SeedSymbol], 1, today)) = 3
    /\ Len(get_period_candles(tables[SeedSymbol], 0, today)) = 2

(* What C16 requires of every step. *)
C16_Step ==
       /\ (seed_pc = "call" /\ seed_pc' = "raised")
           => /\ tables' = tables
              /\ error' # NoError
       /\ seed_pc = "raised" => tables' = tables

(* C16: when an INSERT of bulk_insert_candles fails, the exception reaches *)
(* the caller and no row of the batch is persisted: the table has the rows *)
(* it had before the call, when the call raises and after the run ended.   *)
C16_BulkAllOrNothing ==
    /\ [][C16_Step]_vars
    /\ [](seed_pc \in {"raised", "exited"}
            => /\ tables[SeedSymbol] = {}
               /\ error.op = "bulk_insert_candles")
    /\ [](seed_pc = "exited" => uncommitted = {})

C16_Witness ==
    /\ seed_pc = "exited"
    /\ error.type = "IntegrityError"
    /\ Len(batch) = 3
    /\ batch[1].candle_date_time_kst # batch[2].candle_date_time_kst
    /\ batch[3].candle_date_time_kst = batch[1].candle_date_time_kst
    /\ tables[SeedSymbol] = {}

(* What C17 requires of every step. *)
C17_Step ==
       /\ (pc = "init" /\ table_exists(tables, Symbol)) => tables' = tables
       /\ pc # "init" => DOMAIN tables' = DOMAIN tables
       /\ (pc = "init" /\ ~table_exists(tables, Symbol) /\ tables' # tables)
           => /\ DOMAIN tables' = DOMAIN tables \cup {Symbol}
              /\ \A s \in DOMAIN tables : tables'[s] = tables[s]
       /\ (pc = "init" /\ error' # NoError)
           => error'.type \in {"OperationalError", "IntegrityError"}
       /\ (pc = "init" /\ error' = NoError)
           => /\ table_exists(tables', Symbol)
              /\ IF i < Len(monitored_symbols)
                 THEN pc' = "init" /\ i' = i + 1
                 ELSE pc' = "process" /\ i' = 1

(* C17: a symbol is bootstrapped (table created, history fetched, seed     *)
(* inserted) only when it has no table; a failed seed fetch leaves the     *)
(* table created and empty and raises nothing, main() goes on, and the     *)
(* symbol's cycle runs in that run and, the table being there, in later    *)
(* runs without another bootstrap.                                         *)
C17_BootstrapOnlyWithoutTable ==
    /\ [][C17_Step]_vars
    /\ [](pc = "process" => \A k \in 1..Len(monitored_symbols) :
                                table_exists(tables, monitored_symbols[k]))
    /\ [](pc = "idle" /\ error = NoError /\ cycles > 0
            => \A k \in 1..Len(monitored_symbols) :
                   last_cycle[monitored_symbols[k]].outcome # "none")

C17_Witness ==
    /\ pc = "idle"
    /\ error = NoError
    /\ cycles = 2
    /\ last_cycle["BTC"].outcome = "updated"
    /\ last_cycle["BTC"].n = 2
    /\ Cardinality(tables["BTC"]) = 1
    /\ \A r \in tables["BTC"] : r.open_price = 2

(* What C18 requires of every step. *)
C18_Step ==
    (pc = "idle" /\ error'.op = "validate_env")
        => /\ pc' = "idle"
           /\ tables' = tables
           /\ cycles' = cycles
           /\ last_cycle' = last_cycle

(* C18: a run with a required variable missing ends in validate_env with   *)
(* sys.exit(1) before TelegramUtil or DatabaseUtil is constructed, the     *)
(* store is opened or the exchange is asked anything: nothing is read,     *)
(* written or sent by the run.                                             *)
C18_ConfigErrorFirst ==
    /\ [][C18_Step]_vars
    /\ [](error.op = "validate_env"
            => /\ error.type = "SystemExit"
               /\ pc = "idle"
               /\ touched = {}
               /\ sent = <<>>)

C18_Witness ==
    /\ error = [type |-> "SystemExit", op |-> "validate_env"]
    /\ cycles = 1
    /\ last_cycle["BTC"].outcome = "updated"
    /\ touched = {}

(* The kinds of the alerts sent, in order. *)
AlertTypes == [k \in 1..Len(sent) |-> sent[k].alert_type]

(* What C19 requires of every step. *)
C19_Step ==
       /\ (pc = "process" /\ candle' # None /\ TodayRow(Symbol) # None)
           => pc' = IF is_new_high' THEN "alert_high"
                    ELSE IF is_new_low' THEN "alert_low" ELSE "update"
       /\ (pc = "alert_high" /\ error' = NoError)
           => /\ is_new_high
              /\ sent = <<>>
              /\ Len(sent') = 1
              /\ sent'[1].alert_type = "HIGH"
              /\ pc' = IF is_new_low THEN "alert_low" ELSE "update"
       /\ (pc = "alert_low" /\ error' = NoError)
           => /\ is_new_low
              /\ Len(sent) = (IF is_new_high THEN 1 ELSE 0)
              /\ Len(sent') = Len(sent) + 1
              /\ sent'[Len(sent')].alert_type = "LOW"
              /\ pc' = "update"
       /\ pc = "update"
           => /\ AlertTypes = (IF is_new_high THEN <<"HIGH">> ELSE <<>>)
                               \o (IF is_new_low THEN <<"LOW">> ELSE <<>>)
              /\ is_new_high = (candle.trade_price > existing_record.high_price)
              /\ is_new_low = (candle.trade_price < existing_record.low_price)
              /\ error' = NoError
                   => /\ tables' = [tables EXCEPT ![Symbol] =
                                       update_candle(@, candle, today)]
                      /\ last_cycle'[Symbol].outcome = "updated"

(* C19: with a row for today, send_alert is called for HIGH exactly when   *)
(* is_new_high and for LOW exactly when is_new_low, each decided on its    *)
(* own: none, one or both, HIGH before LOW; the update of the row follows  *)
(* whatever was sent.                                                      *)
C19_AlertsFollowFlags == [][C19_Step]_vars

C19_Witness ==
    /\ pc = "update"
    /\ AlertTypes = <<"HIGH", "LOW">>
    /\ candle.trade_price > existing_record.high_price
    /\ candle.trade_price < existing_record.low_price

(* The deviation of current from window in percent, to the nearest         *)
(* hundredth, signed: the text the claim describes, wrapped as the         *)
(* function wraps it.                                                      *)
DeviationText(current, window) ==
    LET dist == IF current > window THEN current - window ELSE window - current
        low == (dist * 10000) \div window
        h == CHOOSE n \in {low, low + 1} :
                 /\ 2 * (n * window - dist * 10000) <= window
                 /\ 2 * (dist * 10000 - n * window) <= window
    IN  " (" \o (IF current > window THEN "+" ELSE "-") \o decimal_text(h) \o "%)"

(* C20 as claimed: the result is empty when the window value is absent or  *)
(* equals the current price, and otherwise is the signed deviation with    *)
(* two decimals.                                                           *)
C20_PercentDiffUnlessEqual ==
    format_pc = "returned" =>
        IF arg_period_price = <<>> \/ arg_period_price[1] = arg_current_price
        THEN percent_diff = ""
        ELSE /\ percent_diff # ""
             /\ arg_period_price[1] # 0
                  => percent_diff = DeviationText(arg_current_price,
                                                  arg_period_price[1])

(* C20 as amended: the result is empty when the window value is absent, is *)
(* 0 or equals the current price, and otherwise is " (+d%)" or " (-d%)",   *)
(* d the deviation |current - window| / window * 100 with two decimals,    *)
(* '+' when current is above the window value and '-' when below.          *)
C20_PercentDiff ==
    format_pc = "returned" =>
        /\ IF \/ arg_period_price = <<>>
              \/ arg_period_price[1] = 0
              \/ arg_period_price[1] = arg_current_price
           THEN percent_diff = ""
           ELSE percent_diff = DeviationText(arg_current_price,
                                             arg_period_price[1])
        /\ (arg_current_price = 110 /\ arg_period_price = <<100>>)
               => percent_diff = " (+10.00%)"
        /\ (arg_current_price = 90 /\ arg_period_price = <<100>>)
               => percent_diff = " (-10.00%)"

C20_Witness ==
    /\ format_pc = "returned"
    /\ arg_current_price = 10
    /\ arg_period_price = <<30>>
    /\ percent_diff = " (-66.67%)"

(* The date-times of a list of candles. *)
DatesOf(candles) == {candles[k].candle_date_time_kst : k \in DOMAIN candles}

(* A request asks for min(remaining, batch limit) candles; the first one    *)
(* carries no 'to' and a later one the date-time of the oldest candle       *)
(* received so far.                                                         *)
C21_RequestStep ==
    Len(requested') = Len(requested) + 1 =>
        LET request == requested'[Len(requested')]
        IN  /\ remaining_count = count - Len(all_candles)
            /\ request.count <= MaxBatch
            /\ request.count <= remaining_count
            /\ request.count = MaxBatch \/ request.count = remaining_count
            /\ Len(requested) = 0 => request.to = <<>>
            /\ Len(requested) > 0 => request.to = <<Min(DatesOf(all_candles))>>

(* The result has at most count candles, of strictly decreasing date-times. *)
C21_Result ==
    /\ Len(all_candles) <= count
    /\ \A k \in 1..(Len(all_candles) - 1) :
           all_candles[k + 1].candle_date_time_kst
               < all_candles[k].candle_date_time_kst
    /\ (fetch_pc = "done" /\ fetched # None) => fetched = [list |-> all_candles]

(* The loop stops only when nothing remains or the page is empty. *)
C21_StopsOnlyOnCountOrEmptyStep ==
    /\ C21_RequestStep
    /\ (fetch_pc = "request" /\ fetch_pc' = "done")
           => (remaining_count = 0 \/ available = {})
    /\ (fetch_pc = "request" /\ remaining_count = 0) => fetch_pc' = "done"

(* C21 as claimed: every request asks for min(remaining, limit) candles,    *)
(* the first with no time bound and each later one with the oldest date-    *)
(* time received so far as 'to'; the loop stops exactly when the remaining  *)
(* count reaches 0 or a page is empty; the result has at most count         *)
(* candles of strictly decreasing date-times.                               *)
C21_StopsOnlyOnCountOrEmpty ==
    [][C21_StopsOnlyOnCountOrEmptyStep]_vars /\ []C21_Result

(* The loop stops when nothing remains or a request brings no candles (an   *)
(* empty page, a response that is not a list, an exception), and goes on    *)
(* after every page of candles that leaves some to fetch.                   *)
C21_Step ==
    /\ C21_RequestStep
    /\ (fetch_pc = "request" /\ fetch_pc' = "done")
           => \/ remaining_count = 0 /\ requested' = requested
              \/ /\ remaining_count > 0
                 /\ Len(requested') = Len(requested) + 1
                 /\ all_candles' = all_candles
    /\ (fetch_pc = "request" /\ remaining_count = 0) => fetch_pc' = "done"
    /\ (fetch_pc = "request" /\ available = {}) => fetch_pc' = "done"
    /\ all_candles' # all_candles
           => /\ fetch_pc' = "request"
              /\ remaining_count' = count - Len(all_candles')
              /\ remaining_count' < remaining_count

(* C21 as amended: the requests and the result as claimed, and the loop     *)
(* stops exactly when the remaining count reaches 0, a page is empty, a     *)
(* response is not a list or a request raises.                              *)
C21_Pagination == [][C21_Step]_vars /\ []C21_Result

C21_Witness ==
    /\ fetch_pc = "done"
    /\ count = MaxCount
    /\ Len(requested) = 3
    /\ requested[1] = [count |-> MaxBatch, to |-> <<>>]
    /\ requested[2].count = MaxBatch
    /\ requested[3].count = 1
    /\ requested[3].to = <<all_candles[4].candle_date_time_kst>>
    /\ fetched = [list |-> all_candles]
    /\ Len(all_candles) = MaxCount
    /\ all_candles[1].candle_date_time_kst - all_candles[5].candle_date_time_kst > 4

(* A page of candles strictly decreases the remaining count; any other     *)
(* answer to a request ends the call.                                      *)
C25_Step ==
    Len(requested') = Len(requested) + 1 =>
        \/ /\ all_candles' # all_candles
           /\ remaining_count' < remaining_count
           /\ remaining_count' >= 0
        \/ /\ all_candles' = all_candles
           /\ fetch_pc' = "done"

(* C25: get_daily_candles terminates for every count >= 0 when each page   *)
(* request returns or raises: a page of candles strictly decreases the     *)
(* remaining count, an empty page, a response that is not a list or an     *)
(* exception ends the loop, and at most count requests are made (none when *)
(* count is 0).                                                            *)
C25_Terminates ==
    /\ <>(fetch_pc = "done")
    /\ [](Len(requested) <= count)
    /\ [][C25_Step]_vars

C25_Witness ==
    /\ fetch_pc = "done"
    /\ count = MaxCount
    /\ Len(requested) = MaxCount
    /\ \A k \in 1..MaxCount : requested[k].count = (IF MaxCount - k + 1 < MaxBatch
                                                    THEN MaxCount - k + 1 ELSE MaxBatch)
    /\ fetched = [list |-> all_candles]
    /\ Len(all_candles) = MaxCount

(* C22: an alert whose try block raised nothing has dispatched exactly one *)
(* notification: the chart as a photo with the message as caption when the *)
(* series of get_period_candles is not empty, and the message as text if   *)
(* and only if that series is empty.                                       *)
C22_OneNotification ==
    /\ alert_outcome = "none" => dispatched = <<>>
    /\ alert_outcome = "sent" =>
          LET series == get_period_candles(tables[alert_symbol], 365, today)
          IN  /\ Len(dispatched) = 1
              /\ dispatched[1].text = alert_message
              /\ series # <<>> =>
                    /\ dispatched[1].via = "send_photo"
                    /\ dispatched[1].photo = <<save_path(alert_symbol)>>
                    /\ save_path(alert_symbol) \in chart_files
              /\ series = <<>> <=>
                    /\ dispatched[1].via = "send_message"
                    /\ dispatched[1].photo = <<>>

C22_Witness ==
    /\ alert_pc = "ready"
    /\ alert_outcome = "sent"
    /\ alerts = 2
    /\ tables[alert_symbol] # {}
    /\ Len(dispatched) = 1
    /\ dispatched[1].via = "send_message"
    /\ \E f \in chart_files : f.symbol # alert_symbol

(* C23: at most one chart file of a symbol exists at any time: the charts  *)
(* of the symbol left by earlier alerts are all deleted before a new one   *)
(* is written, and no chart of another symbol is deleted.                  *)
C23_Step ==
    /\ \A f \in chart_files \ chart_files' : f.symbol = alert_symbol
    /\ alert_pc' = "savefig" => old_charts(alert_symbol)' = {}

C23_OneChartPerSymbol ==
    /\ [](\A symbol \in Symbols : Cardinality(old_charts(symbol)) <= 1)
    /\ [][C23_Step]_vars

(* What C24 requires of every step: a symbol that has a table gets no seed *)
(* fetch, and its table gains rows only one at a time, by the insert of    *)
(* its poll cycle.                                                         *)
C24_Step ==
    \A s \in DOMAIN tables :
        /\ s \in DOMAIN tables'
        /\ seed_fetches'[s] = seed_fetches[s]
        /\ Cardinality(tables'[s]) # Cardinality(tables[s])
              => /\ pc = "insert"
                 /\ s = Symbol
                 /\ Cardinality(tables'[s]) = Cardinality(tables[s]) + 1

(* C24: over all runs the seed history of a symbol is fetched and inserted *)
(* at most once: once its table is there no run fetches or inserts seed    *)
(* history for it, also after a seed fetch that returned nothing or a seed *)
(* insert aborted by a storage error; the table then gains rows only by    *)
(* the daily poll cycles.                                                  *)
C24_SeedOnce ==
    /\ [][C24_Step]_vars
    /\ [](\A s \in Symbols :
             /\ seed_fetches[s] <= 1
             /\ seed_fetches[s] = 1 <=> s \in DOMAIN tables)

C24_Witness ==
    /\ pc = "process"
    /\ i = 1
    /\ cycles = 0
    /\ error = NoError
    /\ "exchange" \notin touched
    /\ tables[Symbol] = {}
    /\ seed_fetches[Symbol] = 1

====
